---- MODULE Spec2Model ----
(***************************************************************************)
(* Rule-based fraud detection: the single-transaction scoring endpoint     *)
(* (fraud_detection_api.py) and the batch dashboard script                 *)
(* (fraud_detection_app.py).                                               *)
(*                                                                         *)
(* A datetime is [date, sec, aware]: the proleptic Gregorian ordinal of    *)
(* its day (date.toordinal()), the second of the day, and whether it       *)
(* carries a UTC offset.  Sub-second parts are not modelled.  Amounts are  *)
(* whole currency units.                                                   *)
(***************************************************************************)
EXTENDS Integers, Sequences, FiniteSets

VARIABLES now, surface, apiPc, apiReq, apiTx, apiResp, apiNow, apiPrev,
          dashPc, dashError, upload, data, errorShown, transactions, cursor,
          results, readNow, scorecards

vars == <<now, surface, apiPc, apiReq, apiTx, apiResp, apiNow, apiPrev,
          dashPc, dashError, upload, data, errorShown, transactions, cursor,
          results, readNow, scorecards>>

apiVars == <<apiPc, apiReq, apiTx, apiResp, apiNow, apiPrev>>

dashVars == <<dashPc, dashError, upload, data, errorShown, transactions, cursor,
              results, readNow, scorecards>>

(***************************************************************************)
(* Bounds of the model.                                                    *)
(***************************************************************************)
\* the clock advances at most this many half days during a behaviour
MaxTicks == 1
\* an uploaded or default table has at most this many rows
MaxRows == 2

(***************************************************************************)
(* Program constants.                                                      *)
(***************************************************************************)
SecondsPerDay == 86400
HalfDay == SecondsPerDay \div 2
HighAmount == 500000
LateNightStart == 82800
LateNightEnd == 18000
LateHourStart == 23
LateHourEnd == 5
SecondsPerHour == 3600
HighValueTxLimit == 5
RecentAccountDays == 30
SundayIndex == 6

(***************************************************************************)
(* datetime                                                                *)
(***************************************************************************)
DateTime(d, s, a) == [date |-> d, sec |-> s, aware |-> a]

\* date.weekday(): Monday is 0, Sunday is 6
Weekday(dt) == (dt.date + 6) % 7

\* datetime.hour
Hour(dt) == dt.sec \div SecondsPerHour

\* datetime.time(): the time of day with the offset dropped
TimeOfDay(dt) == dt.sec

\* a - b of two datetimes raises TypeError when exactly one carries an offset
SubtractRaises(a, b) == a.aware # b.aware

\* (a - b).days: timedelta normalises to 0 <= seconds < 86400, so days is
\* the floor of the difference
DeltaDays(a, b) ==
  ((a.date - b.date) * SecondsPerDay + (a.sec - b.sec)) \div SecondsPerDay

\* strftime('%A') of a datetime
WeekdayName(dt) ==
  <<"Monday", "Tuesday", "Wednesday", "Thursday", "Friday", "Saturday",
    "Sunday">>[Weekday(dt) + 1]

(***************************************************************************)
(* The Transaction models.                                                 *)
(***************************************************************************)
NineFields ==
  {"id", "amount", "payment_channel", "device_type", "transaction_time",
   "location", "high_value_tx_count", "account_creation_date", "is_verified"}

\* the fields of class Transaction, both files: none has a default
ModelFields == NineFields \cup {"transaction_time_weekday"}

\* pydantic construction: every field of the model must be supplied with a
\* value of its type; fields the model does not name are ignored
Validates(raw) ==
  \A f \in ModelFields : f \in DOMAIN raw.fields /\ f \notin raw.malformed

\* the fields a ValidationError names
ValidationErrors(raw) ==
  {f \in ModelFields : f \notin DOMAIN raw.fields \/ f \in raw.malformed}

\* the constructed Transaction holds the model's fields alone
Construct(raw) == [f \in ModelFields |-> raw.fields[f]]

(***************************************************************************)
(* FraudRule and the rule lists.                                           *)
(***************************************************************************)
FraudRule(rule_id, description, action) ==
  [rule_id |-> rule_id, description |-> description, action |-> action]

\* FraudDetector.create_rules: identifiers, descriptions and actions
ApiRules ==
  << FraudRule("R1", "High transaction amount", "review"),
     FraudRule("R2", "Web channel transaction", "reject"),
     FraudRule("R3", "Transaction from iOS device", "review"),
     FraudRule("R4", "Late-night transaction", "review"),
     FraudRule("R5", "Transaction from Lagos, Nigeria", "reject"),
     FraudRule("R6", "Frequent high-value transactions", "review"),
     FraudRule("R7", "Account created recently", "review"),
     FraudRule("R8", "Unverified account", "reject"),
     FraudRule("R9", "Transaction during restricted period", "reject") >>

\* create_fraud_rules: identifiers, descriptions and actions
AppRules ==
  << FraudRule("R1", "High transaction amount", "review"),
     FraudRule("R2", "Web channel transaction", "reject"),
     FraudRule("R3", "Transaction from iOS device", "review"),
     FraudRule("R4", "Late-night transaction", "review"),
     FraudRule("R5", "Transaction from Lagos, Nigeria", "reject"),
     FraudRule("R6", "Frequent high-value transactions", "review"),
     FraudRule("R7", "Account created recently", "review"),
     FraudRule("R8", "Unverified account", "reject"),
     FraudRule("R9", "Transaction on weekend", "reject") >>

\* API R4: time(23, 0) <= t.time() or t.time() <= time(5, 0)
ApiR4(t) ==
  \/ LateNightStart <= TimeOfDay(t.transaction_time)
  \/ TimeOfDay(t.transaction_time) <= LateNightEnd

\* an account age measured up to the transaction instead of the clock
ApiR7FromTransactionTime(t, clock) ==
  DeltaDays(t.transaction_time, t.account_creation_date) <= RecentAccountDays

\* API R7: (datetime.now() - t.account_creation_date).days <= 30
ApiR7(t, clock) == DeltaDays(clock, t.account_creation_date) <= RecentAccountDays

\* API R9: t.transaction_time.weekday() >= 6
ApiR9(t) == Weekday(t.transaction_time) >= SundayIndex

\* the condition lambdas of FraudDetector.create_rules, by position
ApiCondition(i, t, clock) ==
  CASE i = 1 -> t.amount > HighAmount
    [] i = 2 -> t.payment_channel = "web"
    [] i = 3 -> t.device_type = "iOS"
    [] i = 4 -> ApiR4(t)
    [] i = 5 -> t.location = "Lagos, Nigeria"
    [] i = 6 -> t.high_value_tx_count > HighValueTxLimit
    [] i = 7 -> ApiR7(t, clock)
    [] i = 8 -> ~t.is_verified
    [] i = 9 -> ApiR9(t)

\* dashboard R4: t.transaction_time.hour < 5 or t.transaction_time.hour >= 23
AppR4(t) ==
  \/ Hour(t.transaction_time) < LateHourEnd
  \/ Hour(t.transaction_time) >= LateHourStart

\* dashboard R7: (datetime.now() - t.account_creation_date).days <= 30
AppR7(t, clock) == DeltaDays(clock, t.account_creation_date) <= RecentAccountDays

\* dashboard R9: t.transaction_time_weekday in ["Saturday", "Sunday"]
AppR9(t) == t.transaction_time_weekday \in {"Saturday", "Sunday"}

\* the condition lambdas of create_fraud_rules, by position
AppCondition(i, t, clock) ==
  CASE i = 1 -> t.amount > HighAmount
    [] i = 2 -> t.payment_channel = "web"
    [] i = 3 -> t.device_type = "iOS"
    [] i = 4 -> AppR4(t)
    [] i = 5 -> t.location = "Lagos, Nigeria"
    [] i = 6 -> t.high_value_tx_count > HighValueTxLimit
    [] i = 7 -> AppR7(t, clock)
    [] i = 8 -> ~t.is_verified
    [] i = 9 -> AppR9(t)

\* a condition raises instead of answering: R7 subtracts the creation date
\* from the naive datetime.now()
ConditionRaises(i, t, clock) ==
  i = 7 /\ SubtractRaises(clock, t.account_creation_date)

\* FraudRule.evaluate: (action, description) on a match, (None, None) otherwise
Evaluate(rule, holds) ==
  IF holds THEN [action |-> rule.action, description |-> rule.description]
  ELSE [action |-> "None", description |-> "None"]

\* a loop body that stops collecting once a reject has been collected
CollectUntilReject(actions, outcome) ==
  IF outcome.action # "None"
       /\ \A k \in 1..Len(actions) : actions[k].action # "reject"
  THEN Append(actions, [action |-> outcome.action, reason |-> outcome.description])
  ELSE actions

\* the loop body of check_fraud / evaluate_transactions:
\* if action: append({"action": action, "reason": description})
Collect(actions, outcome) ==
  IF outcome.action # "None"
  THEN Append(actions, [action |-> outcome.action, reason |-> outcome.description])
  ELSE actions

\* the outcome of a rule loop: the list built, or the exception escaping it
Returned(actions) == [raised |-> FALSE, actions |-> actions]
Raised == [raised |-> TRUE, actions |-> <<>>]

\* FraudDetector.check_fraud: for rule in self.rules, from position i on
RECURSIVE CheckFraudFrom(_, _, _, _)
CheckFraudFrom(i, t, clock, actions) ==
  IF i > Len(ApiRules) THEN Returned(actions)
  ELSE IF ConditionRaises(i, t, clock) THEN Raised
  ELSE CheckFraudFrom(i + 1, t, clock,
         Collect(actions, Evaluate(ApiRules[i], ApiCondition(i, t, clock))))

CheckFraud(t, clock) == CheckFraudFrom(1, t, clock, <<>>)

\* the inner loop of evaluate_transactions: for rule in rules, from position i on
RECURSIVE TxResultsFrom(_, _, _, _)
TxResultsFrom(i, t, clock, tx_results) ==
  IF i > Len(AppRules) THEN Returned(tx_results)
  ELSE IF ConditionRaises(i, t, clock) THEN Raised
  ELSE TxResultsFrom(i + 1, t, clock,
         Collect(tx_results, Evaluate(AppRules[i], AppCondition(i, t, clock))))

TxResults(t, clock) == TxResultsFrom(1, t, clock, <<>>)

(***************************************************************************)
(* JSON values of a response whose type varies.                            *)
(***************************************************************************)
JsonString(s) == [type |-> "string", value |-> s]
JsonArray(l) == [type |-> "array", value |-> l]

\* the body check_transaction returns for the list check_fraud built
ApiResponse(t, fraud_results) ==
  IF fraud_results = <<>>
  THEN [transaction_id |-> t.id, status |-> "clear",
        details |-> JsonString("No fraud detected")]
  ELSE [transaction_id |-> t.id, status |-> "flagged",
        details |-> JsonArray(fraud_results)]

\* an entry whose status test is inverted
AppResultInverted(t, tx_results) ==
  [id |-> t.id,
   status |-> IF tx_results # <<>> THEN "clear" ELSE "flagged",
   details |-> tx_results,
   weekday |-> t.transaction_time_weekday,
   location |-> t.location]

\* one entry of the list evaluate_transactions returns
AppResult(t, tx_results) ==
  [id |-> t.id,
   status |-> IF tx_results # <<>> THEN "flagged" ELSE "clear",
   details |-> tx_results,
   weekday |-> t.transaction_time_weekday,
   location |-> t.location]

(***************************************************************************)
(* Inputs.                                                                 *)
(***************************************************************************)
\* the clock when the processes start: Wednesday 2024-11-20 00:00:00, naive
\* as datetime.now() is
ClockStart == DateTime(739210, 0, FALSE)

\* half days the clock has advanced
Ticks(clock) ==
  ((clock.date - ClockStart.date) * SecondsPerDay + clock.sec - ClockStart.sec)
    \div HalfDay

Amounts == {HighAmount, HighAmount + 1}
Channels == {"web", "atm"}
Devices == {"iOS", "Android"}
Locations == {"Lagos, Nigeria", "Ibadan, Nigeria"}
HighValueCounts == {HighValueTxLimit, HighValueTxLimit + 1}

\* Friday 00:00:00, Saturday 05:00:00 and 12:00:00, Sunday 23:00:00,
\* Monday 05:00:01 and 22:59:59
TransactionTimes ==
  {DateTime(739205, 0, FALSE),
   DateTime(739206, LateNightEnd, FALSE),
   DateTime(739206, HalfDay, FALSE),
   DateTime(739207, LateNightStart, FALSE),
   DateTime(739208, LateNightEnd + 1, FALSE),
   DateTime(739208, LateNightStart - 1, FALSE)}

\* 30 days and 12 hours before the start of the clock, without and with a
\* UTC offset; 400 days before; 5 days and 12 hours after
CreationDates ==
  {DateTime(ClockStart.date - RecentAccountDays - 1, HalfDay, FALSE),
   DateTime(ClockStart.date - RecentAccountDays - 1, HalfDay, TRUE),
   DateTime(ClockStart.date - 400, 0, FALSE),
   DateTime(ClockStart.date + 5, HalfDay, FALSE)}

\* request bodies carrying a well-formed value for every field of the API's
\* Transaction (transaction_time_weekday: datetime)
ApiBodies ==
  [id : {"TXN001"}, amount : Amounts, payment_channel : Channels,
   device_type : Devices, transaction_time : TransactionTimes,
   location : Locations, high_value_tx_count : HighValueCounts,
   account_creation_date : CreationDates, is_verified : BOOLEAN,
   transaction_time_weekday : {DateTime(739207, HalfDay, FALSE)}]

\* a raw record: the fields supplied with a well-formed value, and the names
\* of the fields supplied with a value their type does not admit
RawRecord(body, missing, malformed) ==
  [fields |-> [f \in (DOMAIN body) \ (missing \cup malformed) |-> body[f]],
   malformed |-> malformed]

(***************************************************************************)
(* The scoring endpoint.                                                   *)
(***************************************************************************)
NoPrev == [seen |-> FALSE, clock |-> ClockStart, actions |-> <<>>]

NoTx == [id |-> ""]

NoResp == [status |-> "none"]

\* a client posts a body to /check_transaction/: complete, or with one field
\* left out, or with one field ill-typed
ApiReceive ==
  /\ surface = "none"
  /\ \E body \in ApiBodies, f \in ModelFields, how \in {"ok", "missing", "malformed"} :
       /\ how = "ok" => f = "id"
       /\ apiReq' = RawRecord(body,
                      IF how = "missing" THEN {f} ELSE {},
                      IF how = "malformed" THEN {f} ELSE {})
  /\ surface' = "api"
  /\ apiPc' = "received"
  /\ apiPrev' = NoPrev
  /\ UNCHANGED <<now, apiTx, apiResp, apiNow, dashVars>>

\* FastAPI builds the Transaction from the body (422 when it does not
\* validate) and calls check_transaction, whose exceptions become a 500
CheckTransaction ==
  /\ surface = "api"
  /\ apiPc = "received"
  /\ apiNow' = now
  /\ IF ~Validates(apiReq)
     THEN /\ apiPc' = "invalid"
          /\ apiResp' = [status |-> "error", fields |-> ValidationErrors(apiReq)]
          /\ apiTx' = NoTx
     ELSE LET t == Construct(apiReq)
              r == CheckFraud(t, now)
          IN /\ apiTx' = t
             /\ IF r.raised
                THEN /\ apiPc' = "failed"
                     /\ apiResp' = [status |-> "TypeError"]
                ELSE /\ apiPc' = "responded"
                     /\ apiResp' = ApiResponse(t, r.actions)
  /\ UNCHANGED <<now, surface, apiReq, apiPrev, dashVars>>

\* the list of matches a response reports
Matches(resp) ==
  IF resp.details.type = "array" THEN resp.details.value ELSE <<>>

\* the client posts the body it was answered for once more
ApiResubmit ==
  /\ surface = "api"
  /\ apiPc = "responded"
  /\ ~apiPrev.seen
  /\ apiPrev' = [seen |-> TRUE, clock |-> apiNow, actions |-> Matches(apiResp)]
  /\ apiPc' = "received"
  /\ UNCHANGED <<now, surface, apiReq, apiTx, apiResp, apiNow, dashVars>>

\* the exchange is over
ApiFinish ==
  /\ surface = "api"
  /\ apiPc \in {"responded", "invalid", "failed"}
  /\ surface' = "none"
  /\ apiPc' = "idle"
  /\ apiReq' = RawRecord([id |-> ""], {}, {})
  /\ apiTx' = NoTx
  /\ apiResp' = NoResp
  /\ apiNow' = ClockStart
  /\ apiPrev' = NoPrev
  /\ UNCHANGED <<now, dashVars>>

\* time passes
Tick ==
  /\ Ticks(now) < MaxTicks
  /\ now' = IF now.sec + HalfDay >= SecondsPerDay
            THEN DateTime(now.date + 1, now.sec + HalfDay - SecondsPerDay, FALSE)
            ELSE DateTime(now.date, now.sec + HalfDay, FALSE)
  /\ UNCHANGED <<surface, apiVars, dashVars>>

(***************************************************************************)
(* The dashboard script: one run, top to bottom.                           *)
(***************************************************************************)
\* rows of a transaction table, transaction_time_weekday a weekday name:
\* time, weekday name and creation date vary; one row carries a
\* creation date with a UTC offset; one row matches every rule at ClockStart
DashRows ==
  [id : {"TXN001"}, amount : {HighAmount}, payment_channel : {"atm"},
   device_type : {"Android"},
   transaction_time : {DateTime(739206, LateNightEnd, FALSE),
                       DateTime(739208, HalfDay, FALSE)},
   location : {"Ibadan, Nigeria"}, high_value_tx_count : {HighValueTxLimit},
   account_creation_date :
     {DateTime(ClockStart.date - RecentAccountDays - 1, HalfDay, FALSE),
      DateTime(ClockStart.date - 400, 0, FALSE)},
   is_verified : {TRUE},
   transaction_time_weekday : {"Saturday", "Monday"}]
  \cup
  {[id |-> "TXN002", amount |-> HighAmount, payment_channel |-> "atm",
    device_type |-> "Android",
    transaction_time |-> DateTime(739208, HalfDay, FALSE),
    location |-> "Ibadan, Nigeria", high_value_tx_count |-> HighValueTxLimit,
    account_creation_date |->
      DateTime(ClockStart.date - RecentAccountDays - 1, HalfDay, TRUE),
    is_verified |-> TRUE, transaction_time_weekday |-> "Monday"],
   [id |-> "TXN003", amount |-> HighAmount + 1, payment_channel |-> "web",
    device_type |-> "iOS",
    transaction_time |-> DateTime(739207, LateNightStart, FALSE),
    location |-> "Lagos, Nigeria", high_value_tx_count |-> HighValueTxLimit + 1,
    account_creation_date |->
      DateTime(ClockStart.date - RecentAccountDays - 1, HalfDay, FALSE),
    is_verified |-> FALSE, transaction_time_weekday |-> "Sunday"]}

\* a DataFrame: its columns and its rows, each row a record over the columns
Frame(columns, rows) ==
  [columns |-> columns,
   rows |-> [i \in 1..Len(rows) |-> [c \in columns |-> rows[i][c]]]]

\* pd.DataFrame(): no column, no row
EmptyFrame == [columns |-> {}, rows |-> <<>>]

\* the tables a file can hold: up to MaxRows rows, with the ten columns of
\* the dashboard's Transaction or with the nine of the data model
Tables ==
  {Frame(columns, rows) :
     columns \in {ModelFields, NineFields},
     rows \in UNION {[1..n -> DashRows] : n \in 0..MaxRows}}

FileNames ==
  {[stem |-> "transactions", ext |-> e] : e \in {".csv", ".xlsx", ".CSV"}}

\* uploaded_file.name.endswith(suffix)
EndsWith(name, suffix) == name.ext = suffix

NoUpload == [uploaded |-> FALSE, name |-> [stem |-> "sample_transactions", ext |-> ".csv"]]

NoScorecards ==
  [total_transactions |-> 0, total_flagged |-> 0, total_cleared |-> 0,
   total_review |-> 0, total_reject |-> 0]

\* the script starts: st.file_uploader returns None or the uploaded file
DashStart ==
  /\ surface = "none"
  /\ surface' = "dashboard"
  /\ dashPc' = "load"
  /\ \E up \in {NoUpload} \cup {[uploaded |-> TRUE, name |-> n] : n \in FileNames} :
       upload' = up
  /\ UNCHANGED <<now, apiVars, dashError, data, errorShown, transactions,
                 cursor, results, readNow, scorecards>>

\* load_uploaded_data(uploaded_file) when a file was uploaded,
\* load_default_data() otherwise; the file holds some table
DashLoad ==
  /\ surface = "dashboard"
  /\ dashPc = "load"
  /\ IF upload.uploaded /\ ~EndsWith(upload.name, ".csv")
        /\ ~EndsWith(upload.name, ".xlsx")
     THEN /\ errorShown' = TRUE
          /\ data' = EmptyFrame
     ELSE /\ errorShown' = FALSE
          /\ \E table \in Tables : data' = table
  /\ dashPc' = "convert"
  /\ UNCHANGED <<now, surface, apiVars, dashError, upload, transactions,
                 cursor, results, readNow, scorecards>>

\* data.to_dict(orient="records")
ToRecords(frame) ==
  [i \in 1..Len(frame.rows) |-> RawRecord(frame.rows[i], {}, {})]

\* convert_to_transactions: [Transaction(**row) for row in records]
DashConvert ==
  /\ surface = "dashboard"
  /\ dashPc = "convert"
  /\ LET records == ToRecords(data)
     IN IF \A i \in 1..Len(records) : Validates(records[i])
        THEN /\ transactions' = [i \in 1..Len(records) |-> Construct(records[i])]
             /\ dashPc' = "evaluate"
             /\ UNCHANGED dashError
        ELSE /\ transactions' = <<>>
             /\ dashPc' = "failed"
             /\ dashError' = "ValidationError"
  /\ UNCHANGED <<now, surface, apiVars, upload, data, errorShown, cursor,
                 results, readNow, scorecards>>

\* an iteration that goes on with the previous transaction's tx_results
EvaluateOneShared(res, tx, clock) ==
  Append(res, AppResult(tx,
    TxResultsFrom(1, tx, clock,
      IF res = <<>> THEN <<>> ELSE res[Len(res)].details).actions))

\* one iteration of "for tx in transactions": a fresh tx_results, the rule
\* loop, and the entry appended to results
EvaluateOne(res, tx, clock) ==
  Append(res, AppResult(tx, TxResults(tx, clock).actions))

\* evaluate_transactions, one transaction at a time; an exception in a
\* condition ends the run
DashEvaluateStep ==
  /\ surface = "dashboard"
  /\ dashPc = "evaluate"
  /\ cursor < Len(transactions)
  /\ LET tx == transactions[cursor + 1]
     IN IF TxResults(tx, now).raised
        THEN /\ dashPc' = "failed"
             /\ dashError' = "TypeError"
             /\ UNCHANGED <<cursor, results, readNow>>
        ELSE /\ results' = EvaluateOne(results, tx, now)
             /\ readNow' = Append(readNow, now)
             /\ cursor' = cursor + 1
             /\ UNCHANGED <<dashPc, dashError>>
  /\ UNCHANGED <<now, surface, apiVars, upload, data, errorShown,
                 transactions, scorecards>>

\* len(results_df[results_df["status"] == status])
CountStatus(res, status) ==
  Cardinality({i \in 1..Len(res) : res[i].status = status})

\* len([detail for ... if detail["action"] == action])
CountAction(details, action) ==
  Cardinality({i \in 1..Len(details) : details[i].action = action})

\* the concatenation of the details of all results
RECURSIVE AllDetails(_, _)
AllDetails(res, i) ==
  IF i > Len(res) THEN <<>> ELSE res[i].details \o AllDetails(res, i + 1)

\* the columns of pd.DataFrame(fraud_results): the keys of its entries
ResultColumns(res) ==
  IF res = <<>> THEN {} ELSE {"id", "status", "details", "weekday", "location"}

\* evaluate_transactions has returned: results_df and the scorecards;
\* results_df["status"] raises KeyError when there is no such column
DashScorecards ==
  /\ surface = "dashboard"
  /\ dashPc = "evaluate"
  /\ cursor = Len(transactions)
  /\ IF "status" \notin ResultColumns(results)
     THEN /\ dashPc' = "failed"
          /\ dashError' = "KeyError"
          /\ UNCHANGED scorecards
     ELSE /\ dashPc' = "rendered"
          /\ scorecards' =
               [total_transactions |-> Len(results),
                total_flagged |-> CountStatus(results, "flagged"),
                total_cleared |-> CountStatus(results, "clear"),
                total_review |-> CountAction(AllDetails(results, 1), "review"),
                total_reject |-> CountAction(AllDetails(results, 1), "reject")]
          /\ UNCHANGED dashError
  /\ UNCHANGED <<now, surface, apiVars, upload, data, errorShown,
                 transactions, cursor, results, readNow>>

\* the run is over: the page shows the charts, or the exception
DashFinish ==
  /\ surface = "dashboard"
  /\ dashPc \in {"rendered", "failed"}
  /\ surface' = "none"
  /\ dashPc' = "idle"
  /\ dashError' = ""
  /\ upload' = NoUpload
  /\ data' = EmptyFrame
  /\ errorShown' = FALSE
  /\ transactions' = <<>>
  /\ cursor' = 0
  /\ results' = <<>>
  /\ readNow' = <<>>
  /\ scorecards' = NoScorecards
  /\ UNCHANGED <<now, apiVars>>

(***************************************************************************)
(* The specification.                                                      *)
(***************************************************************************)
Init ==
  /\ now = ClockStart
  /\ surface = "none"
  /\ apiPc = "idle"
  /\ apiReq = RawRecord([id |-> ""], {}, {})
  /\ apiTx = NoTx
  /\ apiResp = NoResp
  /\ apiNow = ClockStart
  /\ apiPrev = NoPrev
  /\ dashPc = "idle"
  /\ dashError = ""
  /\ upload = NoUpload
  /\ data = EmptyFrame
  /\ errorShown = FALSE
  /\ transactions = <<>>
  /\ cursor = 0
  /\ results = <<>>
  /\ readNow = <<>>
  /\ scorecards = NoScorecards

Next ==
  \/ ApiReceive
  \/ CheckTransaction
  \/ ApiResubmit
  \/ ApiFinish
  \/ DashStart
  \/ DashLoad
  \/ DashConvert
  \/ DashEvaluateStep
  \/ DashScorecards
  \/ DashFinish
  \/ Tick

Spec == Init /\ [][Next]_vars

(***************************************************************************)
(* Properties.                                                             *)
(***************************************************************************)
\* the members of a finite set of integers in increasing order
RECURSIVE Ascending(_)
Ascending(S) ==
  IF S = {} THEN <<>>
  ELSE LET m == CHOOSE x \in S : \A y \in S : x <= y
       IN <<m>> \o Ascending(S \ {m})

\* the {action, reason} pairs of the rules at the positions S, in rule order
Selected(rules, S) ==
  LET idx == Ascending(S)
  IN [k \in 1..Len(idx) |->
        [action |-> rules[idx[k]].action, reason |-> rules[idx[k]].description]]

\* some entry of a match sequence carries the reason of rule i
Reports(matches, rules, i) ==
  \E k \in 1..Len(matches) : matches[k].reason = rules[i].description

\* evaluate_transactions on a whole batch at one clock reading
RECURSIVE EvaluateFrom(_, _, _, _)
EvaluateFrom(txs, i, clock, res) ==
  IF i > Len(txs) THEN res
  ELSE EvaluateFrom(txs, i + 1, clock, EvaluateOne(res, txs[i], clock))

EvaluateTransactions(txs, clock) == EvaluateFrom(txs, 1, clock, <<>>)

Reverse(seq) == [i \in 1..Len(seq) |-> seq[Len(seq) + 1 - i]]

\* C1: whenever an evaluation returns, its match sequence is exactly the
\* rules R1..R9 whose condition holds for the transaction, each once, in
\* rule-definition order, on the endpoint and on the dashboard
C1_MatchesAreHoldingRulesInOrder ==
  /\ apiPc = "responded" =>
       Matches(apiResp) =
         Selected(ApiRules,
           {i \in 1..Len(ApiRules) : ApiCondition(i, apiTx, apiNow)})
  /\ \A k \in 1..Len(results) :
       results[k].details =
         Selected(AppRules,
           {i \in 1..Len(AppRules) : AppCondition(i, transactions[k], readNow[k])})

\* a response whose first match is a reject and which still reports later
\* matches, while some rule did not match
C1_Witness ==
  /\ apiPc = "responded"
  /\ Len(Matches(apiResp)) >= 3
  /\ Len(Matches(apiResp)) < Len(ApiRules)
  /\ Matches(apiResp)[1].action = "reject"

\* C2: the reported status is "clear" exactly when the match sequence of the
\* transaction is empty, and "flagged" otherwise, on both surfaces
C2_ClearIffNoMatch ==
  /\ apiPc = "responded" =>
       /\ apiResp.status \in {"clear", "flagged"}
       /\ apiResp.status = "clear" <=> CheckFraud(apiTx, apiNow).actions = <<>>
  /\ \A k \in 1..Len(results) :
       /\ results[k].status \in {"clear", "flagged"}
       /\ results[k].status = "clear" <=>
            TxResults(transactions[k], readNow[k]).actions = <<>>

\* a rendered dashboard run with a clear and a flagged transaction
C2_Witness ==
  /\ dashPc = "rendered"
  /\ \E j, k \in 1..Len(results) :
       /\ results[j].status = "clear" /\ results[j].details = <<>>
       /\ results[k].status = "flagged" /\ results[k].details # <<>>

\* C3: every response of the scoring endpoint to an accepted request has a
\* list as "details": empty when the status is "clear", otherwise non-empty
\* with every action "review" or "reject"
C3_DetailsIsAlwaysAList ==
  apiPc = "responded" =>
    /\ apiResp.details.type = "array"
    /\ apiResp.status = "clear" => apiResp.details.value = <<>>
    /\ apiResp.status # "clear" =>
         /\ apiResp.details.value # <<>>
         /\ \A k \in 1..Len(apiResp.details.value) :
              apiResp.details.value[k].action \in {"review", "reject"}

\* C4: R9 matches exactly when transaction_time falls on a Saturday or a
\* Sunday, on both surfaces
C4_R9MatchesOnSaturdayAndSunday ==
  /\ apiPc = "responded" =>
       (Reports(Matches(apiResp), ApiRules, 9)
          <=> WeekdayName(apiTx.transaction_time) \in {"Saturday", "Sunday"})
  /\ \A k \in 1..Len(results) :
       (Reports(results[k].details, AppRules, 9)
          <=> WeekdayName(transactions[k].transaction_time) \in {"Saturday", "Sunday"})

\* C5: R4 matches exactly when the time of day is at or after 23:00:00 or
\* at or before 05:00:00, both bounds included, on both surfaces
C5_R4BoundsInclusive ==
  /\ apiPc = "responded" =>
       (Reports(Matches(apiResp), ApiRules, 4)
          <=> \/ apiTx.transaction_time.sec >= LateNightStart
              \/ apiTx.transaction_time.sec <= LateNightEnd)
  /\ \A k \in 1..Len(results) :
       (Reports(results[k].details, AppRules, 4)
          <=> \/ transactions[k].transaction_time.sec >= LateNightStart
              \/ transactions[k].transaction_time.sec <= LateNightEnd)

\* C6: evaluating a validated Transaction never ends in an error
C6_EvaluationNeverFails ==
  /\ apiPc # "failed"
  /\ dashError # "TypeError"

\* well-formed values for the nine fields of the data model
SuppliesNineFields(raw) ==
  \A f \in NineFields : f \in DOMAIN raw.fields /\ f \notin raw.malformed

\* C7: a raw record is accepted exactly when it supplies well-formed values
\* for the nine fields of the data model, and a rejection names one of them
C7_NineFieldsSuffice ==
  /\ apiPc \in {"responded", "failed"} => SuppliesNineFields(apiReq)
  /\ apiPc = "invalid" =>
       /\ ~SuppliesNineFields(apiReq)
       /\ apiResp.fields \subseteq NineFields
  /\ dashError = "ValidationError" =>
       \E i \in 1..Len(data.rows) : ~SuppliesNineFields(ToRecords(data)[i])

\* C8: R7 matches exactly when the whole days elapsed from
\* account_creation_date to the clock reading of the evaluation are at most
\* 30, whatever transaction_time is; a second evaluation of the same
\* Transaction at the same clock reading gives the same R7 outcome
C8_R7CountsWholeDaysToTheClock ==
  /\ apiPc = "responded" =>
       /\ Reports(Matches(apiResp), ApiRules, 7) <=>
            ((apiNow.date - apiTx.account_creation_date.date) * SecondsPerDay
               + apiNow.sec - apiTx.account_creation_date.sec
               < (RecentAccountDays + 1) * SecondsPerDay)
       /\ (apiPrev.seen /\ apiPrev.clock = apiNow) =>
            (Reports(apiPrev.actions, ApiRules, 7)
               <=> Reports(Matches(apiResp), ApiRules, 7))
  /\ \A k \in 1..Len(results) :
       Reports(results[k].details, AppRules, 7) <=>
         ((readNow[k].date - transactions[k].account_creation_date.date)
              * SecondsPerDay
            + readNow[k].sec - transactions[k].account_creation_date.sec
            < (RecentAccountDays + 1) * SecondsPerDay)

\* the same Transaction evaluated at two clock readings: R7 matched at the
\* first and not at the second
C8_Witness ==
  /\ apiPc = "responded"
  /\ apiPrev.seen
  /\ apiPrev.clock # apiNow
  /\ Reports(apiPrev.actions, ApiRules, 7)
  /\ ~Reports(Matches(apiResp), ApiRules, 7)

\* the uploaded file's name ends in neither .csv nor .xlsx
Unrecognized(up) ==
  up.uploaded /\ up.name.ext \notin {".csv", ".xlsx"}

\* C9: an upload of an unrecognized shape shows an error, no row of it is
\* parsed, converted or evaluated, and the run does not end in an unhandled
\* failure
C9_UnrecognizedUploadIsHandled ==
  (Unrecognized(upload) /\ dashPc \notin {"idle", "load"}) =>
    /\ errorShown
    /\ data = EmptyFrame
    /\ transactions = <<>>
    /\ results = <<>>
    /\ dashPc # "failed"

\* every transaction of the batch was evaluated at the same clock reading
FixedClock == \A j, k \in 1..Len(readNow) : readNow[j] = readNow[k]

\* C10: evaluate_transactions returns one result per transaction, in input
\* order, each equal to the result of evaluating that transaction alone at
\* the same clock reading; at a fixed clock the batch in reverse order gives
\* the results in reverse order; the transactions are left as constructed
C10_BatchIsIndependentApplication ==
  dashPc \in {"evaluate", "rendered"} =>
    /\ Len(results) = cursor
    /\ Len(readNow) = cursor
    /\ cursor <= Len(transactions)
    /\ dashPc = "rendered" => Len(results) = Len(transactions)
    /\ \A k \in 1..Len(results) :
         /\ results[k].id = transactions[k].id
         /\ results[k] = EvaluateTransactions(<<transactions[k]>>, readNow[k])[1]
    /\ (cursor = Len(transactions) /\ cursor > 0 /\ FixedClock) =>
         /\ results = EvaluateTransactions(transactions, readNow[1])
         /\ Reverse(results) =
              EvaluateTransactions(Reverse(transactions), readNow[1])
    /\ transactions =
         [i \in 1..Len(data.rows) |-> Construct(ToRecords(data)[i])]

\* a rendered run of two transactions with different results
C10_Witness ==
  /\ dashPc = "rendered"
  /\ Len(results) >= 2
  /\ results[1].details # <<>>
  /\ results[1].details # results[2].details

\* the actions of a match sequence, in order
Actions(matches) == [k \in 1..Len(matches) |-> matches[k].action]

\* the Transaction with transaction_time_weekday set to the weekday name of
\* its transaction_time
WithWeekdayName(t) ==
  [t EXCEPT !.transaction_time_weekday = WeekdayName(t.transaction_time)]

\* C11: for every transaction, with transaction_time_weekday the weekday
\* name of transaction_time and at the same clock reading, the actions
\* check_fraud reports equal the actions in the details evaluate_transactions
\* reports with create_fraud_rules(), and the two statuses agree
C11_SurfacesAgree ==
  /\ apiPc = "responded" =>
       LET r == EvaluateTransactions(<<WithWeekdayName(apiTx)>>, apiNow)[1]
       IN /\ Actions(Matches(apiResp)) = Actions(r.details)
          /\ apiResp.status = r.status
  /\ \A k \in 1..Len(results) :
       transactions[k].transaction_time_weekday
           = WeekdayName(transactions[k].transaction_time) =>
         /\ Actions(CheckFraud(transactions[k], readNow[k]).actions)
              = Actions(results[k].details)
         /\ ApiResponse(transactions[k],
              CheckFraud(transactions[k], readNow[k]).actions).status
              = results[k].status

====
